---- MODULE Spec2Model ----
(***************************************************************************)
(* Verification model of the codemanbot chat bots.                         *)
(*                                                                         *)
(*   - TwitchBot   (src/twitchbot.py)  and its earlier revision            *)
(*     CodemanBot  (src/codemanbot.py): twitchio command bots.  The state  *)
(*     is the bot object's fields, the counter file data.json, and the     *)
(*     handler coroutines suspended at an await.                           *)
(*   - CodemanTwitchBot (src/src/twitchbot.py): the twitchAPI based bot.   *)
(*                                                                         *)
(* lower(), split(), startswith(), strip() and int() are computed on the   *)
(* characters of the strings, as Python computes them.                     *)
(***************************************************************************)
EXTENDS Integers, Sequences, FiniteSets, Bags, TLC

VARIABLES
    revision,          \* which twitchio bot class runs: "TwitchBot" or "CodemanBot"
    logging,           \* self.logging
    ready,             \* event_ready has run in this process
    load_error,        \* the exception event_ready raised in this process, or None
    session_deaths,    \* self.session_deaths
    lifetime_deaths,   \* self.lifetime_deaths
    session_chalked,   \* self.session_chalked
    lifetime_chalked,  \* self.lifetime_chalked
    dmz_squad_pr,      \* self.dmz_squad_pr
    recent_raffle,     \* self.recent_raffle
    raffle_time,       \* self.raffle_time (None, or seconds on the clock)
    pocus_troll,       \* self.pocus_troll
    data_json,         \* the counter file data.json
    tasks,             \* bag of handler coroutines suspended at an await
    now,               \* the wall clock, in seconds (datetime.now())
    lastMsg,           \* the message handled by the last step (NoMsg otherwise)
    dispatched,        \* handlers whose execution the last step started
    replies,           \* chat lines the last step handed to the transport
    logged,            \* lines the last step appended to the session log
    forwarded,         \* the user texts the last step put into an LLM request
    lastTrigger,       \* clock time of the latest "!raffle" emission (None at first)
    lastRejected,      \* clock time of the latest raffle cool-down reply (None at first)
    d0,                \* data.json["deaths"] when the first process started
    restarts,          \* how many times the process has been restarted
    diedRuns,          \* how many times the died handler has run
    errors,            \* how many handler exceptions twitchio has reported so far
    session_wins,      \* CodemanTwitchBot.session_wins
    session_wins_file, \* the number written in ./data/session_wins.txt
    total_stats,       \* the wins total kept in ./data/total_stats.json
    request_urls,      \* arguments of the spotify_client.request_track calls so far
    executions,        \* CodemanTwitchBot: handler executions the last step started
    chunker,           \* the locals of one send_multiple_respones call, and its replies
    spotify,           \* the SpotifyClient, the player it talks to, its latest request_track
    outcomes,          \* CodemanTwitchBot: how each handler the last step started ended
    routines,          \* CodemanTwitchBot.run: the tasks of its TaskGroup and the chat
    discord,           \* DiscordBot: the last message handled and what was sent for it
    session_log        \* the session log file of this run: the numbers of the writes whose
                       \* lines it holds, oldest first (the lines themselves are in logged)

botVars == <<session_deaths, lifetime_deaths, session_chalked, lifetime_chalked,
             dmz_squad_pr, recent_raffle, raffle_time, pocus_troll>>

ioVars == <<lastMsg, dispatched, replies, logged, forwarded>>

histVars == <<lastTrigger, lastRejected, d0, diedRuns, restarts, errors>>

apiVars == <<session_wins, session_wins_file, total_stats, request_urls, executions,
             chunker, spotify, outcomes, routines, discord>>

vars == <<revision, logging, ready, load_error, botVars, data_json, tasks, now, ioVars,
          histVars, apiVars, session_log>>

\* Python None; a present value v is <<v>>
None == <<>>

Some(v) == <<v>>

Val(o) == o[1]

NoMsg == [author |-> "", content |-> "", echo |-> FALSE, none |-> TRUE]

(***************************************************************************)
(* Python string operations, on TLA+ strings                               *)
(***************************************************************************)
UpperCase == "ABCDEFGHIJKLMNOPQRSTUVWXYZ"

LowerCase == "abcdefghijklmnopqrstuvwxyz"

\* s[i], 1-based
At(s, i) == SubSeq(s, i, i)

\* s[i:], 1-based
From(s, i) == SubSeq(s, i, Len(s))

\* str.lower() on one character
LowerChar(c) ==
    IF \E i \in 1..Len(UpperCase) : At(UpperCase, i) = c
    THEN At(LowerCase, CHOOSE i \in 1..Len(UpperCase) : At(UpperCase, i) = c)
    ELSE c

RECURSIVE lower(_)
\* str.lower()
lower(s) == IF s = "" THEN "" ELSE LowerChar(At(s, 1)) \o lower(From(s, 2))

\* str.isspace() on one character
IsSpace(c) == c \in {" ", "\t", "\n"}

RECURSIVE SplitAcc(_, _, _)
SplitAcc(s, cur, acc) ==
    IF s = ""
    THEN IF cur = "" THEN acc ELSE Append(acc, cur)
    ELSE IF IsSpace(At(s, 1))
         THEN SplitAcc(From(s, 2), "", IF cur = "" THEN acc ELSE Append(acc, cur))
         ELSE SplitAcc(From(s, 2), cur \o At(s, 1), acc)

\* str.split() with no argument: the sequence of whitespace-delimited tokens
split(s) == SplitAcc(s, "", <<>>)

\* str.startswith(p)
startswith(s, p) == Len(s) >= Len(p) /\ SubSeq(s, 1, Len(p)) = p

\* sub in s
contains(s, sub) ==
    \E i \in 1..(Len(s) - Len(sub) + 1) : SubSeq(s, i, i + Len(sub) - 1) = sub

\* the set of characters of a string
CharSet(chars) == {At(chars, i) : i \in 1..Len(chars)}

RECURSIVE lstripChars(_, _)
lstripChars(s, cs) ==
    IF s # "" /\ At(s, 1) \in cs THEN lstripChars(From(s, 2), cs) ELSE s

RECURSIVE rstripChars(_, _)
rstripChars(s, cs) ==
    IF s # "" /\ At(s, Len(s)) \in cs
    THEN rstripChars(SubSeq(s, 1, Len(s) - 1), cs)
    ELSE s

\* str.lstrip(): leading whitespace removed
lstrip(s) == lstripChars(s, {" ", "\t", "\n"})

\* str.strip(), of whitespace
strip_whitespace(s) == rstripChars(lstrip(s), {" ", "\t", "\n"})

\* str.strip(chars): removes from both ends every character that occurs in chars
strip(s, chars) == rstripChars(lstripChars(s, CharSet(chars)), CharSet(chars))

Digits == "0123456789"

IsDigit(c) == \E i \in 1..Len(Digits) : At(Digits, i) = c

DigitVal(c) == (CHOOSE i \in 1..Len(Digits) : At(Digits, i) = c) - 1

RECURSIVE DecimalValue(_)
DecimalValue(s) ==
    IF s = "" THEN 0
    ELSE 10 * DecimalValue(SubSeq(s, 1, Len(s) - 1)) + DigitVal(At(s, Len(s)))

\* int(s): Some(value), or None where Python raises ValueError
int(s) ==
    LET t == strip(s, " \t\n")
    IN  IF t # "" /\ \A i \in 1..Len(t) : IsDigit(At(t, i))
        THEN Some(DecimalValue(t))
        ELSE None

(***************************************************************************)
(* Bounds of the model                                                     *)
(***************************************************************************)
\* died (and chalked) handler runs explored
MaxCount == 2

\* handler coroutines suspended at the same time
MaxTasks == 2

\* process restarts explored
MaxRestarts == 1

\* largest counter value in data.json when the first process starts
MaxInit == 1

\* handler exceptions explored
MaxErrors == 2

\* words of a response handed to the reply chunker
MaxWords == 4

\* win handler runs explored
MaxWins == 2

\* request_track calls explored
MaxRequests == 2

\* writes to the session log in one run
MaxLog == 4

\* notifications standing in the notifications channel
MaxNotifications == 2

\* firings of one periodic routine
MaxFires == 3

\* devices in one answer of get_devices
MaxDevices == 2

\* calls of _find_device_id the loop of _establish_connection is followed for
MaxRetries == 5

\* the clock stops advancing here (seconds)
MaxTime == 930

\* amounts by which the clock advances between two steps (seconds)
ClockSteps == {290, 310}

(***************************************************************************)
(* Configuration of the twitchio bots                                      *)
(***************************************************************************)
Revisions == {"TwitchBot", "CodemanBot"}

\* the prefix= argument of commands.Bot (PREFIX in .env; the handlers strip "!")
prefix == "!"

\* self.nick, the bot's login name
nick == "therealcodemanbot"

raffle_cooldown_time == 15

SecondsPerMinute == 60

\* the greeting words event_message tests the first token against
GreetingWords(rev) ==
    IF rev = "TwitchBot"
    THEN {"hello", "hi", "sup", "what's up", "whats up", "what up", "wat up", "yo"}
    ELSE {"hello", "hi"}

\* the @commands.command registrations: name -> handler method
Commands(rev) ==
    LET common == {<<"troll", "troll">>, <<"hello", "hello">>, <<"raffle", "raffle">>,
                   <<"died", "died">>, <<"chalked", "chalked">>, <<"guscam", "guscam">>,
                   <<"#treatsforgus", "treats_for_gus">>,
                   <<"@therealcodemanbot", "ai_response">>}
    IN  IF rev = "TwitchBot"
        THEN common \cup {<<"8ball", "eight_ball">>, <<"dmzpr", "update_dmz_pr">>,
                          <<"discord", "discord">>, <<"commands", "command_help">>,
                          <<"insultme", "insult_me">>}
        ELSE common

\* aliases=[...] of the registrations: alias -> command name
Aliases == {<<"dead", "died">>}

\* commands.Bot is constructed without case_insensitive=True, so twitchio keeps
\* the commands in a plain dict and looks the typed name up as typed
case_insensitive == FALSE

(***************************************************************************)
(* twitchio command lookup (Bot.get_context), as handle_commands uses it   *)
(***************************************************************************)
\* the typed command name: the first token after the prefix, or None when the
\* content does not start with the prefix or nothing follows it
CommandName(content) ==
    IF ~startswith(content, prefix) THEN None
    ELSE LET parsed == split(lstrip(From(content, Len(prefix) + 1)))
         IN  IF parsed = <<>> THEN None ELSE Some(parsed[1])

\* the handler registered under a typed name or alias, or None (CommandNotFound)
ResolveCommand(rev, typed) ==
    LET key  == IF case_insensitive THEN lower(typed) ELSE typed
        name == IF \E a \in Aliases : a[1] = key
                THEN (CHOOSE a \in Aliases : a[1] = key)[2]
                ELSE key
    IN  IF \E c \in Commands(rev) : c[1] = name
        THEN Some((CHOOSE c \in Commands(rev) : c[1] = name)[2])
        ELSE None

\* the handler handle_commands invokes for a message content, or None
get_command(rev, content) ==
    IF CommandName(content) = None THEN None
    ELSE ResolveCommand(rev, Val(CommandName(content)))

(***************************************************************************)
(* event_message: the echo filter and the rewriting before dispatch        *)
(***************************************************************************)
\* variant: the echo test is left out
IsEcho_dropped(m) == FALSE

\* message.echo: the message was sent by the bot itself
IsEcho(m) == m.echo

\* "pocus_jet" in message.author.name.lower()
IsPocus(author) == contains(lower(author), "pocus_jet")

\* the greeting/mention/hashtag rewrite; content.split() is not empty
Rewrite(rev, content) ==
    LET content_l == lower(content)
        contents  == split(content_l)
    IN  IF rev = "TwitchBot"
        THEN IF contents[1] \in GreetingWords(rev) THEN "!" \o content_l
             ELSE IF startswith(content_l, "@" \o lower(nick)) THEN "!" \o content_l
             ELSE IF startswith(content_l, "#treatsforgus") THEN "!" \o content_l
             ELSE content
        ELSE IF contents[1] \in GreetingWords(rev) THEN "!" \o content_l
             ELSE IF contents[1] = "@" \o nick THEN "!" \o content_l
             ELSE IF contents[1] = "#treatsforgus" THEN "!" \o content_l
             ELSE content

(***************************************************************************)
(* Inbound chat messages, and what the router makes of each                *)
(***************************************************************************)
Msg(author, content, echo) ==
    [author |-> author, content |-> content, echo |-> echo, none |-> FALSE]

Authors == {"Viewer1", "xPocus_Jet", nick}

RouterContents ==
    {"hello", "HI", "Yo chat", "gg", "!DEAD", "!dead", "!DIED", "!died", "!notacommand"}

CounterContents ==
    {"!died", "!chalked", "!dmzpr 1", "!dmzpr 2", "!dmzpr 3", "#treatsforgus"}

FaultContents == {"!died", "!chalked", "!dmzpr 1", "!dmzpr 2", "!dmzpr x"}

\* messages that start with a mention of the bot
MentionContents ==
    {"@therealcodemanbot hey", "@therealcodemanbot be cool", "@TheRealCodemanBot So?"}

\* messages whose text is empty or only whitespace
BlankContents == {"", "  "}

Contents ==
    RouterContents \cup CounterContents \cup FaultContents \cup MentionContents
    \cup BlankContents \cup {"!raffle", "!troll"}

\* the router and the died counters
Messages ==
    {Msg("Viewer1", c, FALSE) : c \in RouterContents \cup MentionContents \cup BlankContents}
    \cup {Msg("xPocus_Jet", c, FALSE) : c \in {"hello", "!notacommand"}}
    \cup {Msg(nick, c, TRUE) : c \in {"hello", "!died"}}

CounterMessages == {Msg("Viewer1", c, FALSE) : c \in CounterContents}

FaultMessages == {Msg("Viewer1", c, FALSE) : c \in FaultContents}

RouterFaultMessages == FaultMessages \cup {Msg("Viewer1", "!raffle", FALSE)}

RaffleMessages == {Msg("Viewer1", "!raffle", FALSE), Msg(nick, "!raffle", TRUE)}

\* the authors the pocus_jet test holds of
PocusAuthors == {a \in Authors : IsPocus(a)}

\* the pocus_jet branch of event_message is taken
Trolled(m) == ~pocus_troll /\ m.author \in PocusAuthors

\* message.content after the pocus_jet branch
TrollContent(m) == IF Trolled(m) THEN "!troll" ELSE m.content

\* dmz_pr = int(context.message.content.strip("!dmzpr"))
dmz_pr_of(content) == int(strip(content, "!dmzpr"))

\* ai_response, with an openai key:
\* "".join(context.message.content.strip(f"!{context.command.name}")).strip()
formatted_message(content) == strip_whitespace(strip(content, "!@therealcodemanbot"))

\* event_message from the greeting test on, for one content: whether
\* content.split()[0] raises IndexError, the content after the rewrite, the
\* handler handle_commands resolves it to, the number dmzpr reads from it, and
\* the text ai_response puts into its LLM request (none when it is empty)
Route(rev, content) ==
    IF split(lower(content)) = <<>>
    THEN [raises |-> TRUE, content |-> content, command |-> None, dmz_pr |-> None,
          forwarded |-> <<>>]
    ELSE [raises  |-> FALSE,
          content |-> Rewrite(rev, content),
          command |-> get_command(rev, Rewrite(rev, content)),
          dmz_pr  |-> dmz_pr_of(Rewrite(rev, content)),
          forwarded |-> IF get_command(rev, Rewrite(rev, content)) = Some("ai_response")
                           /\ formatted_message(Rewrite(rev, content)) # ""
                        THEN <<formatted_message(Rewrite(rev, content))>>
                        ELSE <<>>]

\* Route, computed once for the contents of the model
RouteTable == [rev \in Revisions |-> [c \in Contents |-> Route(rev, c)]]

Routed(rev, content) == RouteTable[rev][content]

\* the routed message raises where every I/O call succeeds: split()[0] on a
\* blank content (IndexError), or int() of dmzpr on a non-number (ValueError)
Raises(routed) ==
    \/ routed.raises
    \/ routed.command = Some("update_dmz_pr") /\ routed.dmz_pr = None

(***************************************************************************)
(* Command handlers of TwitchBot / CodemanBot.  A handler runs from its    *)
(* invocation to its first await in one step; a handler with code after   *)
(* an await leaves a task that a later step resumes.                       *)
(***************************************************************************)
\* variant: only the key that was set is written back
SetKey_alone(data, k, v) == [x \in {k} |-> v]

\* data[k] = v on the dict read from data.json, which is then written back
SetKey(data, k, v) == [x \in DOMAIN data \cup {k} |-> IF x = k THEN v ELSE data[x]]

\* the number of the next write to the session log
next_write == IF session_log = <<>> THEN 1 ELSE session_log[Len(session_log)] + 1

\* with open(path, "a+") as log: log.write(line)
open_append(file, line) == Append(file, line)

\* with open(path, "w") as log: log.write(line)
open_write(file, line) == <<line>>

\* a chat line: what it says and the numbers it carries
Reply(kind, x, y) == [kind |-> kind, x |-> x, y |-> y]

\* a suspended handler: the await it is suspended at and its local value
Task(pc, val) == [pc |-> pc, val |-> val]

counterVars == <<session_deaths, lifetime_deaths, session_chalked, lifetime_chalked>>

raffleVars == <<recent_raffle, raffle_time>>

\* everything a handler may write, besides the chat lines it sends
handlerVars == <<counterVars, dmz_squad_pr, raffleVars, data_json, tasks,
                 lastTrigger, lastRejected, diedRuns>>

\* troll, hello, 8ball, guscam, discord, commands, ai_response, insultme:
\* one chat line and no state
say(kind) ==
    /\ replies' = <<Reply(kind, 0, 0)>>
    /\ UNCHANGED handlerVars

\* variant: the elapsed seconds are not divided into minutes
elapsed_minutes_seconds(current_time, since) == current_time - since

\* (current_time - self.raffle_time).total_seconds() // 60
elapsed_minutes(current_time, since) == (current_time - since) \div SecondsPerMinute

\* raffle, accepting branch up to its first await: the announcement is sent
raffle_trigger ==
    /\ BagCardinality(tasks) < MaxTasks
    /\ replies' = <<Reply("Okay! Let's do a raffle!", 0, 0)>>
    /\ tasks' = tasks (+) SetToBag({Task("raffle:announce", 0)})
    /\ UNCHANGED <<counterVars, dmz_squad_pr, raffleVars, data_json, lastTrigger, lastRejected, diedRuns>>

\* variant: the cool-down branch restarts the timer
raffle_cooldown_resets(elapsed_time) ==
    /\ replies' = <<Reply("raffle is currently in cool down",
                          raffle_cooldown_time - elapsed_time, 0)>>
    /\ lastRejected' = Some(now)
    /\ raffle_time' = Some(now)
    /\ UNCHANGED <<counterVars, dmz_squad_pr, recent_raffle, data_json, tasks,
                   lastTrigger, diedRuns>>

\* raffle, cool-down branch: the remaining minutes are sent, nothing is assigned
raffle_cooldown(elapsed_time) ==
    /\ replies' = <<Reply("raffle is currently in cool down",
                          raffle_cooldown_time - elapsed_time, 0)>>
    /\ lastRejected' = Some(now)
    /\ UNCHANGED <<counterVars, dmz_squad_pr, raffleVars, data_json, tasks,
                   lastTrigger, diedRuns>>

raffle ==
    LET current_time == now
    IN  IF recent_raffle
        THEN LET elapsed_time == elapsed_minutes(current_time, Val(raffle_time))
             IN  IF elapsed_time >= raffle_cooldown_time
                 THEN raffle_trigger
                 ELSE raffle_cooldown(elapsed_time)
        ELSE raffle_trigger

\* raffle resumed after the announcement: "!raffle" is sent
raffle_send_command(t) ==
    /\ t.pc = "raffle:announce"
    /\ replies' = <<Reply("!raffle", 0, 0)>>
    /\ lastTrigger' = Some(now)
    /\ tasks' = (tasks (-) SetToBag({t})) (+) SetToBag({Task("raffle:command", 0)})
    /\ UNCHANGED <<counterVars, dmz_squad_pr, raffleVars, data_json, lastRejected, diedRuns>>

\* raffle resumed after "!raffle": the timer and the flag are set
raffle_set_time(t) ==
    /\ t.pc = "raffle:command"
    /\ raffle_time' = Some(now)
    /\ recent_raffle' = TRUE
    /\ replies' = <<>>
    /\ tasks' = tasks (-) SetToBag({t})
    /\ UNCHANGED <<counterVars, dmz_squad_pr, data_json, lastTrigger, lastRejected, diedRuns>>

died ==
    /\ diedRuns < MaxCount
    /\ session_deaths' = session_deaths + 1
    /\ lifetime_deaths' = lifetime_deaths + 1
    /\ data_json' = SetKey(data_json, "deaths", lifetime_deaths')
    /\ replies' = <<Reply("has died", session_deaths', lifetime_deaths')>>
    /\ diedRuns' = diedRuns + 1
    /\ UNCHANGED <<session_chalked, lifetime_chalked, dmz_squad_pr, raffleVars,
                   tasks, lastTrigger, lastRejected>>

chalked ==
    /\ lifetime_chalked < MaxInit + MaxCount
    /\ session_chalked' = session_chalked + 1
    /\ lifetime_chalked' = lifetime_chalked + 1
    /\ data_json' = SetKey(data_json, "chalked", lifetime_chalked')
    /\ replies' = <<Reply("said I'm chalked", session_chalked', lifetime_chalked')>>
    /\ UNCHANGED <<session_deaths, lifetime_deaths, dmz_squad_pr, raffleVars,
                   tasks, lastTrigger, lastRejected, diedRuns>>

\* variant: a value equal to the record is taken for a new record
update_dmz_pr_accepts_equal(dmz_pr) ==
    IF dmz_pr = None
    THEN replies' = <<>> /\ UNCHANGED handlerVars
    ELSE IF Val(dmz_pr) < dmz_squad_pr
    THEN /\ replies' = <<Reply("That does not beat their current PR", dmz_squad_pr, 0)>>
         /\ UNCHANGED handlerVars
    ELSE /\ BagCardinality(tasks) < MaxTasks
         /\ data_json' = SetKey(data_json, "dmz_squad_pr_kills", Val(dmz_pr))
         /\ replies' = <<Reply("have beat their kill PR", dmz_squad_pr, Val(dmz_pr))>>
         /\ tasks' = tasks (+) SetToBag({Task("dmzpr:send", Val(dmz_pr))})
         /\ UNCHANGED <<counterVars, dmz_squad_pr, raffleVars, lastTrigger, lastRejected, diedRuns>>

\* dmzpr: int() raises on a non-number; a value above the record is written to
\* the file at once and assigned to self.dmz_squad_pr after the awaited send
update_dmz_pr(dmz_pr) ==
    IF dmz_pr = None
    THEN replies' = <<>> /\ UNCHANGED handlerVars
    ELSE IF Val(dmz_pr) <= dmz_squad_pr
    THEN /\ replies' = <<Reply("That does not beat their current PR", dmz_squad_pr, 0)>>
         /\ UNCHANGED handlerVars
    ELSE /\ BagCardinality(tasks) < MaxTasks
         /\ data_json' = SetKey(data_json, "dmz_squad_pr_kills", Val(dmz_pr))
         /\ replies' = <<Reply("have beat their kill PR", dmz_squad_pr, Val(dmz_pr))>>
         /\ tasks' = tasks (+) SetToBag({Task("dmzpr:send", Val(dmz_pr))})
         /\ UNCHANGED <<counterVars, dmz_squad_pr, raffleVars, lastTrigger, lastRejected, diedRuns>>

\* dmzpr resumed after the send: self.dmz_squad_pr = dmz_pr
update_dmz_pr_assign(t) ==
    /\ t.pc = "dmzpr:send"
    /\ dmz_squad_pr' = t.val
    /\ replies' = <<>>
    /\ tasks' = tasks (-) SetToBag({t})
    /\ UNCHANGED <<counterVars, raffleVars, data_json, lastTrigger, lastRejected, diedRuns>>

\* #treatsforgus up to its first await
treats_for_gus ==
    /\ BagCardinality(tasks) < MaxTasks
    /\ replies' = <<Reply("GIVE THE GOOD BOY A TREAT", 0, 0)>>
    /\ tasks' = tasks (+) SetToBag({Task("treats:send", 0)})
    /\ UNCHANGED <<counterVars, dmz_squad_pr, raffleVars, data_json, lastTrigger, lastRejected, diedRuns>>

\* #treatsforgus resumed: the redeem line
treats_for_gus_redeem(t) ==
    /\ t.pc = "treats:send"
    /\ replies' = <<Reply("!redeem treatsforgus", 0, 0)>>
    /\ tasks' = tasks (-) SetToBag({t})
    /\ UNCHANGED <<counterVars, dmz_squad_pr, raffleVars, data_json, lastTrigger, lastRejected, diedRuns>>

\* Bot.invoke: the handler of a resolved command runs on the message
invoke(handler, dmz_pr) ==
    CASE handler = "raffle"         -> raffle
      [] handler = "died"           -> died
      [] handler = "chalked"        -> chalked
      [] handler = "update_dmz_pr"  -> update_dmz_pr(dmz_pr)
      [] handler = "treats_for_gus" -> treats_for_gus
      [] OTHER                      -> say(handler)

\* variant: an unknown command is answered
handle_commands_answers_unknown(routed) ==
    IF routed.command = None
    THEN /\ dispatched' = <<>>
         /\ replies' = <<Reply("unknown command", 0, 0)>>
         /\ UNCHANGED handlerVars
    ELSE /\ dispatched' = <<Val(routed.command)>>
         /\ invoke(Val(routed.command), routed.dmz_pr)

\* await self.handle_commands(message), on the routed message
handle_commands(routed) ==
    IF routed.command = None
    THEN /\ dispatched' = <<>>
         /\ replies' = <<>>
         /\ UNCHANGED handlerVars
    ELSE /\ dispatched' = <<Val(routed.command)>>
         /\ invoke(Val(routed.command), routed.dmz_pr)

\* constants of one process run and what the API bot owns
fixedVars == <<revision, logging, d0, apiVars>>

\* event_message, from the arrival of m to the first await of the handler
event_message(m) ==
    /\ ready
    /\ lastMsg' = m
    /\ forwarded' = IF IsEcho(m) THEN <<>> ELSE Routed(revision, TrollContent(m)).forwarded
    /\ IF IsEcho(m)
       THEN /\ dispatched' = <<>>
            /\ replies' = <<>>
            /\ logged' = <<>>
            /\ session_log' = session_log
            /\ UNCHANGED <<pocus_troll, handlerVars>>
       ELSE /\ pocus_troll' = (pocus_troll \/ Trolled(m))
            /\ logging => next_write <= MaxLog
            /\ logged' = IF logging THEN <<<<m.author, TrollContent(m)>>>> ELSE <<>>
            /\ session_log' = IF logging THEN open_append(session_log, next_write)
                              ELSE session_log
            /\ IF Routed(revision, TrollContent(m)).raises
               THEN /\ dispatched' = <<>>
                    /\ replies' = <<>>
                    /\ UNCHANGED handlerVars
               ELSE handle_commands(Routed(revision, TrollContent(m)))
    /\ Raises(Routed(revision, TrollContent(m))) => errors < MaxErrors
    /\ errors' = IF Raises(Routed(revision, TrollContent(m))) THEN errors + 1 ELSE errors
    /\ UNCHANGED <<fixedVars, ready, load_error, now, restarts>>

\* variant: event_ready does not load the deaths counter
event_ready_keeps_deaths ==
    /\ ~ready
    /\ ready' = TRUE
    /\ load_error' = None
    /\ lifetime_chalked' = data_json.chalked
    /\ dmz_squad_pr' = IF revision = "TwitchBot"
                       THEN data_json.dmz_squad_pr_kills
                       ELSE dmz_squad_pr
    /\ lastMsg' = NoMsg
    /\ forwarded' = <<>>
    /\ dispatched' = <<>>
    /\ replies' = <<>>
    /\ logged' = <<>>
    /\ session_log' = session_log
    /\ UNCHANGED <<fixedVars, session_deaths, lifetime_deaths, session_chalked, raffleVars,
                   pocus_troll, data_json, tasks, now, lastTrigger, lastRejected, diedRuns,
                   restarts, errors>>

\* the keys event_ready reads, in the order it reads them
LoadedKeys(rev) ==
    IF rev = "TwitchBot"
    THEN <<"deaths", "chalked", "dmz_squad_pr_kills">>
    ELSE <<"deaths", "chalked">>

\* data[LoadedKeys[i]] is reached and present: no earlier key raised KeyError
Loads(rev, data, i) ==
    /\ i <= Len(LoadedKeys(rev))
    /\ \A j \in 1..i : LoadedKeys(rev)[j] \in DOMAIN data

\* event_ready: the lifetime counters are loaded from data.json, up to the
\* first key the file lacks (KeyError).  twitchio reports an exception of
\* event_ready and goes on to deliver messages
event_ready ==
    /\ ~ready
    /\ ready' = TRUE
    /\ lifetime_deaths' = IF Loads(revision, data_json, 1)
                          THEN data_json.deaths
                          ELSE lifetime_deaths
    /\ lifetime_chalked' = IF Loads(revision, data_json, 2)
                           THEN data_json.chalked
                           ELSE lifetime_chalked
    /\ dmz_squad_pr' = IF Loads(revision, data_json, 3)
                       THEN data_json.dmz_squad_pr_kills
                       ELSE dmz_squad_pr
    /\ load_error' = IF Loads(revision, data_json, Len(LoadedKeys(revision)))
                     THEN None
                     ELSE Some("KeyError")
    /\ errors' = IF load_error' = None THEN errors ELSE errors + 1
    /\ lastMsg' = NoMsg
    /\ forwarded' = <<>>
    /\ dispatched' = <<>>
    /\ replies' = <<>>
    /\ logged' = <<>>
    /\ session_log' = session_log
    /\ UNCHANGED <<fixedVars, session_deaths, session_chalked, raffleVars, pocus_troll,
                   data_json, tasks, now, lastTrigger, lastRejected, diedRuns,
                   restarts>>

\* event_ready where data.json is missing or unparseable: open() or
\* json.load() raises and nothing is loaded
event_ready_file_error ==
    /\ ~ready
    /\ ready' = TRUE
    /\ load_error' = Some("FileError")
    /\ errors' = errors + 1
    /\ lastMsg' = NoMsg
    /\ forwarded' = <<>>
    /\ dispatched' = <<>>
    /\ replies' = <<>>
    /\ logged' = <<>>
    /\ session_log' = session_log
    /\ UNCHANGED <<fixedVars, botVars, data_json, tasks, now, lastTrigger, lastRejected,
                   diedRuns, restarts>>

\* a suspended handler is resumed by the event loop
resume(t) ==
    /\ \/ raffle_send_command(t)
       \/ raffle_set_time(t)
       \/ update_dmz_pr_assign(t)
       \/ treats_for_gus_redeem(t)
    /\ lastMsg' = NoMsg
    /\ forwarded' = <<>>
    /\ dispatched' = <<>>
    /\ logged' = <<>>
    /\ session_log' = session_log
    /\ UNCHANGED <<fixedVars, ready, load_error, pocus_troll, now, restarts, errors>>

\* the fields __init__ sets
InitFields ==
    /\ session_deaths = 0
    /\ lifetime_deaths = 0
    /\ session_chalked = 0
    /\ lifetime_chalked = 0
    /\ dmz_squad_pr = 0
    /\ recent_raffle = FALSE
    /\ raffle_time = None
    /\ pocus_troll = FALSE

\* the process is stopped and started again: __init__ runs, data.json stays
restart ==
    /\ restarts < MaxRestarts
    /\ restarts' = restarts + 1
    /\ session_deaths' = 0
    /\ lifetime_deaths' = 0
    /\ session_chalked' = 0
    /\ lifetime_chalked' = 0
    /\ dmz_squad_pr' = 0
    /\ recent_raffle' = FALSE
    /\ raffle_time' = None
    /\ pocus_troll' = FALSE
    /\ ready' = FALSE
    /\ load_error' = None
    /\ tasks' = EmptyBag
    /\ lastMsg' = NoMsg
    /\ forwarded' = <<>>
    /\ dispatched' = <<>>
    /\ replies' = <<>>
    /\ logged' = <<>>
    /\ session_log' = <<>>
    /\ UNCHANGED <<fixedVars, data_json, now, lastTrigger, lastRejected, diedRuns, errors>>

\* time passes
tick(d) ==
    /\ now + d <= MaxTime
    /\ now' = now + d
    /\ lastMsg' = NoMsg
    /\ forwarded' = <<>>
    /\ dispatched' = <<>>
    /\ replies' = <<>>
    /\ logged' = <<>>
    /\ session_log' = session_log
    /\ UNCHANGED <<fixedVars, ready, load_error, botVars, data_json, tasks, histVars>>

(***************************************************************************)
(* I/O failures: open()/json.load() of data.json raises inside a handler,   *)
(* or an awaited context.send raises.  twitchio reports the exception and   *)
(* goes on with the next message.                                           *)
(***************************************************************************)
\* died: the counters are incremented, then reading data.json raises
died_file_error ==
    /\ diedRuns < MaxCount
    /\ session_deaths' = session_deaths + 1
    /\ lifetime_deaths' = lifetime_deaths + 1
    /\ diedRuns' = diedRuns + 1
    /\ UNCHANGED <<session_chalked, lifetime_chalked, dmz_squad_pr, raffleVars,
                   data_json, tasks, lastTrigger, lastRejected>>

\* chalked: the counters are incremented, then reading data.json raises
chalked_file_error ==
    /\ lifetime_chalked < MaxInit + MaxCount
    /\ session_chalked' = session_chalked + 1
    /\ lifetime_chalked' = lifetime_chalked + 1
    /\ UNCHANGED <<session_deaths, lifetime_deaths, dmz_squad_pr, raffleVars,
                   data_json, tasks, lastTrigger, lastRejected, diedRuns>>

\* dmzpr with a value above the record: reading data.json raises
update_dmz_pr_file_error(dmz_pr) ==
    /\ dmz_pr # None
    /\ Val(dmz_pr) > dmz_squad_pr
    /\ UNCHANGED handlerVars

\* variant: the exception of the handler stops the delivery of messages
event_message_file_error_stops(m) ==
    LET routed == Routed(revision, TrollContent(m))
    IN  /\ ready
        /\ ~IsEcho(m)
        /\ ~Raises(routed)
        /\ routed.command \in {Some("died"), Some("chalked"), Some("update_dmz_pr")}
        /\ errors < MaxErrors
        /\ lastMsg' = m
        /\ forwarded' = <<>>
        /\ pocus_troll' = (pocus_troll \/ Trolled(m))
        /\ logging => next_write <= MaxLog
        /\ logged' = IF logging THEN <<<<m.author, TrollContent(m)>>>> ELSE <<>>
        /\ session_log' = IF logging THEN open_append(session_log, next_write)
                          ELSE session_log
        /\ dispatched' = <<Val(routed.command)>>
        /\ CASE routed.command = Some("died")    -> died_file_error
             [] routed.command = Some("chalked") -> chalked_file_error
             [] OTHER                            -> update_dmz_pr_file_error(routed.dmz_pr)
        /\ replies' = <<>>
        /\ errors' = errors + 1
        /\ ready' = FALSE
        /\ UNCHANGED <<fixedVars, load_error, now, restarts>>

\* a message whose handler reads data.json arrives, and the read raises
event_message_file_error(m) ==
    LET routed == Routed(revision, TrollContent(m))
    IN  /\ ready
        /\ ~IsEcho(m)
        /\ ~Raises(routed)
        /\ routed.command \in {Some("died"), Some("chalked"), Some("update_dmz_pr")}
        /\ errors < MaxErrors
        /\ lastMsg' = m
        /\ forwarded' = <<>>
        /\ pocus_troll' = (pocus_troll \/ Trolled(m))
        /\ logging => next_write <= MaxLog
        /\ logged' = IF logging THEN <<<<m.author, TrollContent(m)>>>> ELSE <<>>
        /\ session_log' = IF logging THEN open_append(session_log, next_write)
                          ELSE session_log
        /\ dispatched' = <<Val(routed.command)>>
        /\ CASE routed.command = Some("died")    -> died_file_error
             [] routed.command = Some("chalked") -> chalked_file_error
             [] OTHER                            -> update_dmz_pr_file_error(routed.dmz_pr)
        /\ replies' = <<>>
        /\ errors' = errors + 1
        /\ UNCHANGED <<fixedVars, ready, load_error, now, restarts>>

\* the awaited context.send of a suspended handler raises: the rest of the
\* handler does not run
resume_send_error(t) ==
    /\ errors < MaxErrors
    /\ tasks' = tasks (-) SetToBag({t})
    /\ errors' = errors + 1
    /\ lastMsg' = NoMsg
    /\ forwarded' = <<>>
    /\ dispatched' = <<>>
    /\ replies' = <<>>
    /\ logged' = <<>>
    /\ session_log' = session_log
    /\ UNCHANGED <<fixedVars, ready, load_error, botVars, data_json, now, lastTrigger, lastRejected,
                   d0, diedRuns, restarts>>

(***************************************************************************)
(* CodemanTwitchBot: the twitchAPI Chat object starts the handler of a      *)
(* registered command and, for every message, the MESSAGE event handler.    *)
(***************************************************************************)
\* self.bot_name
bot_name == "therealcodemanbot"

\* the chat.register_command registrations of run(): name -> handler method
registered_commands ==
    {<<"clip", "clip">>, <<"lurk", "lurk">>, <<"8ball", "eight_ball">>,
     <<"win", "win">>, <<"clearwins", "clear_wins">>, <<"help", "help">>,
     <<"discord", "discord">>, <<"socials", "socials">>,
     <<"insultme", "insult_me">>, <<"weather", "weather">>,
     <<"sr", "spotify_request">>, <<"song", "spotify_now_playing">>,
     <<"queue", "send_spotify_queue">>}

\* the command name Chat reads from a text that starts with the prefix: the
\* characters up to the first space, lower-cased
bot_command(text) ==
    IF ~startswith(text, prefix) THEN None
    ELSE LET parts == split(From(text, Len(prefix) + 1))
         IN  IF parts = <<>> \/ At(text, Len(prefix) + 1) = " "
             THEN Some("")
             ELSE Some(lower(parts[1]))

\* the registered handler Chat starts for a text, or None
command_handler(text) ==
    IF bot_command(text) = None THEN None
    ELSE IF \E c \in registered_commands : c[1] = Val(bot_command(text))
         THEN Some((CHOOSE c \in registered_commands : c[1] = Val(bot_command(text)))[2])
         ELSE None

\* on_message: the handler it awaits for a text, or None
on_message(text) ==
    IF lower(text) \in {"hello", "hi"} THEN Some("send_greeting")
    ELSE IF lower(text) \in {"!sr", "!songrequest", "!spotifyrequest"}
         THEN Some("spotify_request")
    ELSE IF split(lower(text)) # <<>> /\ split(lower(text))[1] = "@" \o bot_name
         THEN Some("chat_gpt")
    ELSE None

\* request_url = cmd.text.split()[-1]
request_url(text) == split(text)[Len(split(text))]

\* requested_track.split("?")[0]
before_query(url) ==
    LET marks == {i \in 1..Len(url) : At(url, i) = "?"}
    IN  IF marks = {} THEN url
        ELSE SubSeq(url, 1, (CHOOSE i \in marks : \A k \in marks : i <= k) - 1)

APITexts ==
    {"hello", "HI", "gg", "!sr", "!SR", "!sr track", "!songrequest", "!win", "!WIN",
     "!clearwins", "!lurk", "!notacommand", "@therealcodemanbot hey",
     "!sr /track/a", "!sr /track/a?si=1", "!sr /track/b", "!weather Paris", "!clip",
     "!insultme", "@therealcodemanbot be cool", "", "  "}

APIMessages == {Msg("Viewer1", c, FALSE) : c \in APITexts}

\* what Chat starts for one text: the registered command handler first, then
\* what the MESSAGE handler on_message awaits; the request_track arguments, what
\* is_valid_track says of the argument and the URL check_queue looks for; the
\* formatted_message chat_gpt (with an openai key) puts into its LLM request;
\* whether on_message raises IndexError at msg.text.lower().split()[0]
Handled(text) ==
    LET started == (IF command_handler(text) = None THEN <<>> ELSE command_handler(text))
                   \o (IF on_message(text) = None THEN <<>> ELSE on_message(text))
        requests == SelectSeq(started, LAMBDA h : h = "spotify_request")
    IN  [executions   |-> started,
         request_urls |-> [i \in 1..Len(requests) |-> request_url(text)],
         valid_track  |-> requests # <<>> /\ contains(request_url(text), "/track/"),
         track        |-> IF requests = <<>> THEN "" ELSE before_query(request_url(text)),
         forwarded    |-> IF on_message(text) = Some("chat_gpt")
                          THEN <<strip(text, "@" \o bot_name)>>
                          ELSE <<>>,
         raises       |-> /\ lower(text) \notin {"hello", "hi", "!sr", "!songrequest",
                                                 "!spotifyrequest"}
                          /\ split(lower(text)) = <<>>]

\* Handled, computed once for the texts of the model
HandledTable == [c \in APITexts |-> Handled(c)]

\* win: the session counter, written to SESSION_WINS_FILE
win ==
    /\ session_wins < MaxWins
    /\ session_wins' = session_wins + 1
    /\ session_wins_file' = Some(session_wins')
    /\ UNCHANGED total_stats

\* clearwins
clear_wins ==
    /\ session_wins' = 0
    /\ session_wins_file' = Some(session_wins')
    /\ UNCHANGED total_stats

\* the chat line a started handler sends
api_reply(handler) ==
    CASE handler = "win"        -> Reply("WIN(S) ON THE DAY", session_wins', 0)
      [] handler = "clear_wins" -> Reply("Session wins have been reset to 0 :)", 0, 0)
      [] OTHER                  -> Reply(handler, 0, 0)

\* the members of SpotifyReturnCode and their values
SpotifyReturnCode ==
    [SUCCESS |-> 0, FAILED |-> 1, REQUEST_IS_NOT_A_TRACK |-> 2,
     REQUEST_ALREADY_IN_QUEUE |-> 3, FAILED_TO_ESTABLISH_CONNECTION |-> 4,
     FAILED_TO_ADD_TO_QUEUE |-> 5, FAILED_TO_BEGIN_PLAYBACK |-> 6,
     NO_CURRENT_PLAYBACK |-> 7]

\* device_name, the playback device the client is configured with
device_name == "PC"

\* max_attempts of _establish_connection
max_attempts == 3

\* the devices self.spotify.devices() may list
Devices == [name : {"PC", "Phone"}, id : {1, 2}]

\* the answers of get_devices: lists of at most MaxDevices devices
DeviceLists == UNION {[1..n -> Devices] : n \in 0..MaxDevices}

\* _find_device_id on one answer of get_devices: the id of the last device
\* that carries the configured name, or -1
find_device_id(devices) ==
    LET named == {i \in DOMAIN devices : devices[i].name = device_name}
    IN  IF named = {} THEN -1
        ELSE devices[CHOOSE i \in named : \A k \in named : k <= i].id

\* _establish_connection is entered: its locals, self._device_id, the value
\* it returns, the latest answer of get_devices and the number of times the
\* loop has called _find_device_id
ConnectionStart ==
    [pc |-> "enter", current_retries |-> 0, device_id |-> -1, self_device_id |-> -1,
     status |-> None, devices |-> <<>>, retries |-> 0]

\* _establish_connection has returned with the device found
Established ==
    [ConnectionStart EXCEPT !.pc = "done", !.current_retries = 1, !.device_id = 1,
                            !.self_device_id = 1, !.status = Some("SUCCESS"),
                            !.devices = <<[name |-> device_name, id |-> 1]>>]

\* a SpotifyClient after __init__ and the player of the account: local_queue is
\* the set of URLs in self._local_queue; playing and queue are the player's
\* current track (None when nothing plays) and its queue; status, raised,
\* accepted and failed tell how the latest request_track ended: the value it
\* returned (None is Python's None), the exception that left it, whether the
\* player took the track, whether a call to the player failed
SpotifyStart(playing) ==
    [local_queue |-> {}, playing |-> playing, queue |-> <<>>,
     status |-> None, raised |-> None, accepted |-> FALSE, failed |-> FALSE,
     connection |-> Established]

\* the track that plays when CodemanTwitchBot starts, if one does
StartTracks == {None, Some("/track/a")}

\* request_track on the client sp.  ext is what the outside does during the
\* call: ext.fails with ext.at says which call to the player raises, ext.ended
\* that the current track ends after queue() was read and nothing follows it.
\* An except block of this code calls error.with_traceback() without its
\* argument, which raises TypeError.
request_track(requested, sp, ext) ==
    LET entered == [sp EXCEPT !.status = None, !.raised = None,
                              !.accepted = FALSE, !.failed = FALSE]
        track   == requested.track
    IN  IF ~requested.valid_track
        THEN [entered EXCEPT !.status = Some("REQUEST_IS_NOT_A_TRACK")]
        ELSE IF ext.fails /\ ext.at = "queue"
        THEN [entered EXCEPT !.raised = Some("TypeError"), !.failed = TRUE]
        ELSE IF sp.playing = None
        THEN [entered EXCEPT !.raised = Some("TypeError")]
        ELSE LET local   == sp.local_queue \cup {Val(sp.playing)}
                              \cup {sp.queue[k] : k \in DOMAIN sp.queue}
                 checked == [entered EXCEPT !.local_queue = local]
                 stopped == ext.ended /\ sp.queue = <<>>
             IN  IF track \in local
                 THEN [checked EXCEPT !.status = Some("REQUEST_ALREADY_IN_QUEUE")]
                 ELSE IF ext.fails
                 THEN [checked EXCEPT !.raised = Some("TypeError"), !.failed = TRUE,
                                      !.playing = IF stopped THEN None ELSE @]
                 ELSE IF ~stopped
                 THEN [checked EXCEPT !.queue = Append(@, track),
                                      !.status = Some("SUCCESS"), !.accepted = TRUE]
                 ELSE [checked EXCEPT !.playing = Some(track), !.accepted = TRUE]

\* how one handler execution ended: whether a call to an outside service
\* failed in it, the exception that left it (or None), the reply it sent (or
\* None), and whether it got an LLM response of more than 450 characters
Outcome(handler, failed, raised, reply) ==
    [handler |-> handler, failed |-> failed, raised |-> raised, reply |-> reply,
     long |-> FALSE]

\* spotify_request, after request_track has ended as sp tells
spotify_request(sp) ==
    IF sp.raised # None
    THEN Outcome("spotify_request", sp.failed, sp.raised, None)
    ELSE IF sp.status = None
    THEN Outcome("spotify_request", FALSE, Some("AttributeError"), None)
    ELSE IF Val(sp.status) # "SUCCESS"
    THEN Outcome("spotify_request", FALSE, None,
                 Some(Reply("Failed to add request.", SpotifyReturnCode[Val(sp.status)], 0)))
    ELSE Outcome("spotify_request", FALSE, None, Some(Reply("Request added!", 0, 0)))

\* clip: create_clip and get_clips are in a try block
clip(ext) ==
    IF ext.fails
    THEN Outcome("clip", TRUE, None, Some(Reply("I am sorry, I could not create the clip.", 0, 0)))
    ELSE Outcome("clip", FALSE, None, Some(api_reply("clip")))

\* weather: requests.get, response.json() and the keys of the answer
weather(ext) ==
    IF ext.fails
    THEN Outcome("weather", TRUE, Some("RequestException"), None)
    ELSE Outcome("weather", FALSE, None, Some(api_reply("weather")))

\* send_greeting, with an openai key: openai.ChatCompletion.create
send_greeting(ext) ==
    IF ext.fails
    THEN Outcome("send_greeting", TRUE, Some("OpenAIError"), None)
    ELSE Outcome("send_greeting", FALSE, None, Some(api_reply("send_greeting")))

\* insult_me, with an openai key
insult_me(ext) ==
    IF ext.fails
    THEN Outcome("insult_me", TRUE, Some("OpenAIError"), None)
    ELSE Outcome("insult_me", FALSE, None, Some(api_reply("insult_me")))

\* chat_gpt, with an openai key: an answer of more than 450 characters goes to
\* self.send_multiple_repsonses, a name the class does not define
chat_gpt(ext) ==
    IF ext.fails
    THEN Outcome("chat_gpt", TRUE, Some("OpenAIError"), None)
    ELSE IF ext.long
    THEN [Outcome("chat_gpt", FALSE, Some("AttributeError"), None) EXCEPT !.long = TRUE]
    ELSE Outcome("chat_gpt", FALSE, None, Some(api_reply("chat_gpt")))

\* the handlers that call an outside service
ServiceHandlers ==
    {"clip", "weather", "send_greeting", "insult_me", "chat_gpt", "spotify_request"}

\* the replies of the executions, in their order
RECURSIVE Sent(_)
Sent(ended) ==
    IF ended = <<>> THEN <<>>
    ELSE (IF Head(ended).reply = None THEN <<>> ELSE Head(ended).reply) \o Sent(Tail(ended))

\* a chat message reaches the twitchAPI Chat object of CodemanTwitchBot, while
\* the outside behaves as ext tells
handle_msg(m, ext) ==
    LET handled == HandledTable[m.content]
        started == handled.executions
        n       == Len(handled.request_urls)
        first   == IF n >= 1 THEN request_track(handled, spotify, ext) ELSE spotify
        second  == IF n >= 2 THEN request_track(handled, first, ext) ELSE first
        ends(i) ==
            CASE started[i] = "spotify_request" -> spotify_request(IF i = 1 THEN first ELSE second)
              [] started[i] = "clip"            -> clip(ext)
              [] started[i] = "weather"         -> weather(ext)
              [] started[i] = "send_greeting"   -> send_greeting(ext)
              [] started[i] = "insult_me"       -> insult_me(ext)
              [] started[i] = "chat_gpt"        -> chat_gpt(ext)
              [] OTHER -> Outcome(started[i], FALSE, None, Some(api_reply(started[i])))
    IN  /\ Len(request_urls) + Len(handled.request_urls) <= MaxRequests
        /\ lastMsg' = m
        /\ forwarded' = handled.forwarded
        /\ executions' = started
        /\ request_urls' = request_urls \o handled.request_urls
        /\ IF \E i \in 1..Len(started) : started[i] = "win" THEN win
           ELSE IF \E i \in 1..Len(started) : started[i] = "clear_wins" THEN clear_wins
           ELSE UNCHANGED <<session_wins, session_wins_file, total_stats>>
        /\ spotify' = second
        /\ outcomes' = [i \in 1..Len(started) |-> ends(i)]
                        \o (IF handled.raises
                            THEN <<Outcome("on_message", FALSE, Some("IndexError"), None)>>
                            ELSE <<>>)
        /\ replies' = Sent(outcomes')
        /\ dispatched' = <<>>
        /\ IF \E i \in 1..Len(started) : started[i] = "clip" /\ ext.fails
           THEN /\ next_write <= MaxLog
                /\ logged' = <<<<"Clip-Creation-Error", "">>>>
                /\ session_log' = open_write(session_log, next_write)
           ELSE /\ logged' = <<>>
                /\ session_log' = session_log
        /\ UNCHANGED <<revision, logging, ready, load_error, botVars, data_json, tasks, now,
                       histVars, chunker, routines, discord>>

\* the choices the outside has where handler is among the handlers started
\* for m, and the one choice that stands for all where it is not
Choices(m, handler) ==
    IF \E i \in DOMAIN HandledTable[m.content].executions :
            HandledTable[m.content].executions[i] = handler
    THEN BOOLEAN ELSE {FALSE}

\* a chat message is handled and every call to an outside service succeeds
chat_message(m) ==
    /\ m.content \in DOMAIN HandledTable
    /\ routines.chat = "up"
    /\ \E ended \in Choices(m, "spotify_request"), long \in Choices(m, "chat_gpt") :
        handle_msg(m, [fails |-> FALSE, at |-> "call", ended |-> ended, long |-> long])

\* a chat message is handled and a call to an outside service raises
chat_message_service_error(m) ==
    /\ routines.chat = "up"
    /\ \E i \in DOMAIN HandledTable[m.content].executions :
            HandledTable[m.content].executions[i] \in ServiceHandlers
    /\ \E at \in {"queue", "call"}, ended \in Choices(m, "spotify_request") :
        handle_msg(m, [fails |-> TRUE, at |-> at, ended |-> ended, long |-> FALSE])

\* what a step of _establish_connection leaves alone
connectionFrame ==
    <<revision, logging, ready, load_error, botVars, data_json, tasks, now, histVars,
      session_wins, session_wins_file, total_stats, request_urls, chunker, session_log,
      routines, discord>>

\* a step of _establish_connection that takes the connection record to c
establish_step(c) ==
    /\ spotify' = [spotify EXCEPT !.connection = c]
    /\ lastMsg' = NoMsg
    /\ forwarded' = <<>>
    /\ executions' = <<>>
    /\ outcomes' = <<>>
    /\ replies' = <<>>
    /\ dispatched' = <<>>
    /\ logged' = <<>>
    /\ UNCHANGED connectionFrame

\* current_retries = 1; device_id = self._find_device_id()
establish_enter ==
    /\ spotify.connection.pc = "enter"
    /\ \E devices \in DeviceLists :
        establish_step([spotify.connection EXCEPT
                          !.pc = "while", !.current_retries = 1, !.devices = devices,
                          !.device_id = find_device_id(devices)])

\* one pass of `while device_id == -1 and current_retries <= max_attempts`:
\* the body calls _find_device_id again and leaves current_retries as it is
establish_retry ==
    /\ spotify.connection.pc = "while"
    /\ spotify.connection.device_id = -1
    /\ spotify.connection.current_retries <= max_attempts
    /\ spotify.connection.retries < MaxRetries
    /\ \E devices \in DeviceLists :
        establish_step([spotify.connection EXCEPT
                          !.devices = devices, !.device_id = find_device_id(devices),
                          !.retries = @ + 1])

\* the loop has ended: the if/else that returns
establish_return ==
    /\ spotify.connection.pc = "while"
    /\ ~(spotify.connection.device_id = -1
         /\ spotify.connection.current_retries <= max_attempts)
    /\ establish_step(IF spotify.connection.device_id # -1
                      THEN [spotify.connection EXCEPT
                              !.pc = "done", !.self_device_id = spotify.connection.device_id,
                              !.status = Some("SUCCESS")]
                      ELSE [spotify.connection EXCEPT
                              !.pc = "done",
                              !.status = Some("FAILED_TO_ESTABLISH_CONNECTION")])

\* the track that plays ends: the next of the queue plays, or nothing does
track_ends ==
    /\ spotify.playing # None
    /\ spotify' = [spotify EXCEPT
                     !.playing = IF spotify.queue = <<>> THEN None ELSE Some(Head(spotify.queue)),
                     !.queue = IF spotify.queue = <<>> THEN <<>> ELSE Tail(spotify.queue)]
    /\ lastMsg' = NoMsg
    /\ forwarded' = <<>>
    /\ executions' = <<>>
    /\ outcomes' = <<>>
    /\ replies' = <<>>
    /\ dispatched' = <<>>
    /\ logged' = <<>>
    /\ session_log' = session_log
    /\ UNCHANGED <<revision, logging, ready, load_error, botVars, data_json, tasks, now,
                   histVars, session_wins, session_wins_file, total_stats, request_urls,
                   chunker, routines, discord>>

(***************************************************************************)
(* CodemanTwitchBot.send_multiple_respones, the reply chunker.  A word is  *)
(* its position in response.split() and its length; a chunk (the string    *)
(* temp) is the sequence of the words appended to it, each followed by a   *)
(* space.                                                                  *)
(***************************************************************************)
\* the 450 of `len(temp) + len(word) < 450` and of `len(response) > 450`
chunk_limit == 450

\* the word lengths of the model
WordLengths == {199, 399, 400, 450, 451}

Word(id, length) == [id |-> id, len |-> length]

RECURSIVE TextLen(_)
\* len(temp): every word of temp is followed by one space
TextLen(temp) ==
    IF temp = <<>> THEN 0 ELSE Head(temp).len + 1 + TextLen(Tail(temp))

\* len(response) of the words joined by single spaces
ResponseLen(words) == IF words = <<>> THEN 0 ELSE TextLen(words) - 1

\* response.split() of the responses chat_gpt hands over: len(response) > 450
Responses ==
    {words \in UNION {[1..n -> WordLengths] : n \in 1..MaxWords} :
        ResponseLen([i \in DOMAIN words |-> Word(i, words[i])]) > chunk_limit}

\* no call of the chunker is in progress
ChunkerIdle ==
    [pc |-> "idle", words |-> <<>>, i |-> 1, temp |-> <<>>, responses |-> <<>>,
     counter |-> 0, size |-> 0, sent |-> <<>>]

\* send_multiple_respones is entered: words = response.split(), temp = ""
ChunkerStart(lengths) ==
    [ChunkerIdle EXCEPT !.pc = "for",
                        !.words = [i \in DOMAIN lengths |-> Word(i, lengths[i])]]

\* what the chunker leaves alone
chunkerFrame ==
    <<revision, logging, ready, load_error, botVars, data_json, tasks, now, ioVars,
      histVars, session_wins, session_wins_file, total_stats, request_urls, executions,
      spotify, outcomes, routines, session_log, discord>>

\* one iteration of `for word in words`
chunker_word ==
    /\ chunker.pc = "for"
    /\ chunker.i <= Len(chunker.words)
    /\ LET word == chunker.words[chunker.i]
       IN  chunker' =
             IF TextLen(chunker.temp) + word.len < chunk_limit
             THEN [chunker EXCEPT !.temp = Append(@, word), !.i = @ + 1]
             ELSE [chunker EXCEPT !.responses = Append(@, chunker.temp),
                                  !.temp = <<>>,
                                  !.i = @ + 1]
    /\ UNCHANGED chunkerFrame

\* the loop is over: counter = 1, size = responses.qsize()
chunker_size ==
    /\ chunker.pc = "for"
    /\ chunker.i > Len(chunker.words)
    /\ chunker' = [chunker EXCEPT !.pc = "while",
                                  !.counter = 1,
                                  !.size = Len(chunker.responses)]
    /\ UNCHANGED chunkerFrame

\* variant: the counter is not advanced
chunker_reply_same_counter ==
    /\ chunker.pc = "while"
    /\ chunker.responses # <<>>
    /\ chunker' = [chunker EXCEPT
                     !.sent = Append(@, [counter |-> chunker.counter,
                                         size    |-> chunker.size,
                                         body    |-> Head(chunker.responses)]),
                     !.responses = Tail(@)]
    /\ UNCHANGED chunkerFrame

\* one iteration of `while not responses.empty()`: REPLY (counter/size): chunk
chunker_reply ==
    /\ chunker.pc = "while"
    /\ chunker.responses # <<>>
    /\ chunker' = [chunker EXCEPT
                     !.sent = Append(@, [counter |-> chunker.counter,
                                         size    |-> chunker.size,
                                         body    |-> Head(chunker.responses)]),
                     !.responses = Tail(@),
                     !.counter = @ + 1]
    /\ UNCHANGED chunkerFrame

\* the queue is empty: send_multiple_respones returns
chunker_return ==
    /\ chunker.pc = "while"
    /\ chunker.responses = <<>>
    /\ chunker' = [chunker EXCEPT !.pc = "done"]
    /\ UNCHANGED chunkerFrame

(***************************************************************************)
(* CodemanTwitchBot.run: the periodic routines are the tasks of one        *)
(* asyncio.TaskGroup.  When a task of a TaskGroup ends with an exception,  *)
(* the group cancels its other tasks and the `async with` raises an        *)
(* ExceptionGroup, which run catches with `except Exception`; the finally  *)
(* block then calls chat.stop().                                           *)
(***************************************************************************)
\* the tasks run creates in its TaskGroup
Routines == {"update_spotify_stream_player", "twitter_routine", "discord_routine"}

\* run has created the tasks: every routine runs, the chat is connected
RoutinesStart ==
    [status |-> [r \in Routines |-> "running"], fires |-> [r \in Routines |-> 0],
     chat |-> "up", interrupted |-> FALSE]

\* what the routines leave alone
routinesFrame ==
    <<revision, logging, ready, load_error, botVars, data_json, tasks, now, histVars,
      session_wins, session_wins_file, total_stats, request_urls, chunker, spotify,
      session_log>>

\* the observers of a step that handles no chat message
no_message ==
    /\ lastMsg' = NoMsg
    /\ forwarded' = <<>>
    /\ executions' = <<>>
    /\ outcomes' = <<>>
    /\ dispatched' = <<>>
    /\ logged' = <<>>

\* one pass of the `while True` of a posting routine: chat.send_message either
\* sends, or raises and ends the task, the group and the chat
routine(name, sends) ==
    /\ routines.status[name] = "running"
    /\ IF sends
       THEN /\ routines.fires[name] < MaxFires
            /\ routines' = [routines EXCEPT !.fires[name] = @ + 1]
            /\ replies' = <<Reply(name, 0, 0)>>
       ELSE /\ routines' = [routines EXCEPT
                              !.status = [r \in Routines |->
                                            IF r = name THEN "failed" ELSE "cancelled"],
                              !.chat = "stopped"]
            /\ replies' = <<>>
    /\ no_message
    /\ UNCHANGED <<routinesFrame, discord>>

twitter_routine ==
    /\ routines.chat = "up"
    /\ \E sends \in BOOLEAN : routine("twitter_routine", sends)

discord_routine ==
    /\ routines.chat = "up"
    /\ \E sends \in BOOLEAN : routine("discord_routine", sends)

\* one pass of the overlay updater: whatever is raised inside is caught and
\* printed, and the task sleeps and goes on
update_spotify_stream_player ==
    /\ routines.status["update_spotify_stream_player"] = "running"
    /\ routines.fires["update_spotify_stream_player"] < MaxFires
    /\ routines' = [routines EXCEPT !.fires["update_spotify_stream_player"] = @ + 1]
    /\ replies' = <<>>
    /\ no_message
    /\ UNCHANGED <<routinesFrame, discord>>

\* the operator interrupts run: the tasks are cancelled, finally stops the chat
interrupt ==
    /\ routines.chat = "up"
    /\ routines' = [routines EXCEPT !.status = [r \in Routines |-> "cancelled"],
                                    !.chat = "stopped", !.interrupted = TRUE]
    /\ replies' = <<>>
    /\ no_message
    /\ UNCHANGED <<routinesFrame, discord>>

(***************************************************************************)
(* DiscordBot.on_message (src/src/discordbot.py).                          *)
(***************************************************************************)
\* the one author id the `!live` branch accepts
privileged_id == "739002023755644999"

\* self.user, the account of the bot
user == "codemanbot"

\* authors of Discord messages: the bot, the privileged account, somebody else
DiscordAuthors == {user, privileged_id, "100000000000000001"}

\* texts of Discord messages
DiscordContents ==
    {"hello", "Hello", "!help", "!HELP", "!live", "!live now", "!LIVE now", "go !live",
     "!lived evil"}

\* the texts on_message greets
greetings == {"hello", "hi", "sup", "what's up", "whats up", "what up", "wat up", "yo"}

\* nothing handled yet, the notifications channel is empty
DiscordStart ==
    [message |-> None, found |-> FALSE, invoked |-> FALSE, channel |-> <<>>,
     direct |-> <<>>, notifications |-> <<>>]

\* the mutation of live_authorized that forgets the author
live_authorized_any_author(message) == startswith(message.content, "!live")

\* the condition of the branch that posts the notification
live_authorized(message) ==
    startswith(message.content, "!live") /\ message.author = privileged_id

\* what post_twitch_message sends: the notification when get_channel finds the
\* notifications channel, an error to the channel of the message otherwise
post_twitch_message(message, found) ==
    IF found
    THEN [channel |-> <<>>,
          notifications |-> <<[mention |-> message.author,
                               description |-> message.content]>>]
    ELSE [channel |-> <<"invalid channel id">>, notifications |-> <<>>]

\* on_message for one message; found: get_channel finds the notifications channel
DiscordBot_on_message(message, found) ==
    LET nothing == [discord EXCEPT !.message = Some(message), !.found = found,
                                   !.invoked = FALSE, !.channel = <<>>, !.direct = <<>>]
        posted == post_twitch_message(
                      [message EXCEPT !.content = strip_whitespace(strip(@, "!live"))],
                      found)
    IN  /\ discord' =
              IF message.author = user THEN nothing
              ELSE IF message.content \in greetings
              THEN [nothing EXCEPT !.channel = <<"Hello!">>]
              ELSE IF lower(message.content) = "!help"
              THEN [nothing EXCEPT !.direct = <<"test">>]
              ELSE IF live_authorized(message)
              THEN [nothing EXCEPT !.invoked = TRUE, !.channel = posted.channel,
                                   !.notifications = @ \o posted.notifications]
              ELSE IF startswith(message.content, "!live") /\ message.author # privileged_id
              THEN [nothing EXCEPT !.channel = <<"no permission">>]
              ELSE nothing
        /\ Len(discord'.notifications) <= MaxNotifications
        /\ replies' = <<>>
        /\ no_message
        /\ UNCHANGED <<routinesFrame, routines>>

(***************************************************************************)
(* Specifications                                                          *)
(***************************************************************************)
\* a process that has just been constructed, and the observers at rest
InitRun ==
    /\ ready = FALSE
    /\ load_error = None
    /\ InitFields
    /\ tasks = EmptyBag
    /\ now = 0
    /\ lastMsg = NoMsg
    /\ dispatched = <<>>
    /\ replies = <<>>
    /\ logged = <<>>
    /\ forwarded = <<>>
    /\ lastTrigger = None
    /\ lastRejected = None
    /\ diedRuns = 0
    /\ restarts = 0
    /\ errors = 0
    /\ session_wins = 0
    /\ session_wins_file = None
    /\ total_stats = MaxInit
    /\ request_urls = <<>>
    /\ executions = <<>>
    /\ outcomes = <<>>
    /\ routines = RoutinesStart
    /\ discord = DiscordStart
    /\ session_log = <<>>

\* a twitchio bot starts on a counter file
Init ==
    /\ revision \in Revisions
    /\ logging \in BOOLEAN
    /\ data_json \in [deaths : 0..MaxInit, chalked : {MaxInit}, dmz_squad_pr_kills : {MaxInit}]
    /\ d0 = data_json.deaths
    /\ chunker = ChunkerIdle
    /\ spotify = SpotifyStart(None)
    /\ InitRun

\* the keys of data.json
Keys == {"deaths", "chalked", "dmz_squad_pr_kills"}

\* counter files that hold any of the keys, the empty JSON object included
DataFiles == UNION {[K -> {MaxInit}] : K \in SUBSET Keys}

\* a twitchio bot starts on a counter file that may lack keys
InitLoad ==
    /\ revision \in Revisions
    /\ logging = FALSE
    /\ data_json \in DataFiles
    /\ d0 = IF "deaths" \in DOMAIN data_json THEN data_json.deaths ELSE 0
    /\ chunker = ChunkerIdle
    /\ spotify = SpotifyStart(None)
    /\ InitRun

\* CodemanTwitchBot starts; the twitchio bot of the same repository is not run
InitAPI ==
    /\ revision = "CodemanTwitchBot"
    /\ logging = FALSE
    /\ data_json = [deaths |-> 0, chalked |-> MaxInit, dmz_squad_pr_kills |-> MaxInit]
    /\ d0 = data_json.deaths
    /\ chunker = ChunkerIdle
    /\ spotify \in {SpotifyStart(playing) : playing \in StartTracks}
    /\ InitRun

\* CodemanTwitchBot has entered send_multiple_respones with some response
InitChunker ==
    /\ revision = "CodemanTwitchBot"
    /\ logging = FALSE
    /\ data_json = [deaths |-> 0, chalked |-> MaxInit, dmz_squad_pr_kills |-> MaxInit]
    /\ d0 = data_json.deaths
    /\ chunker \in {ChunkerStart(lengths) : lengths \in Responses}
    /\ spotify = SpotifyStart(None)
    /\ InitRun

\* the command router: greetings, commands in any casing, unknown commands,
\* echoes; every message of a run arrives within the same half minute
Next ==
    \/ event_ready
    \/ \E m \in Messages : event_message(m)

Spec == Init /\ [][Next]_vars

\* the counters and data.json, across a restart of the process
NextCounters ==
    \/ event_ready
    \/ \E m \in CounterMessages : event_message(m)
    \/ \E t \in BagToSet(tasks) : resume(t)
    \/ restart

SpecCounters == Init /\ [][NextCounters]_vars

\* the raffle gate on the clock
NextRaffle ==
    \/ event_ready
    \/ \E m \in RaffleMessages : event_message(m)
    \/ \E t \in BagToSet(tasks) : resume(t)
    \/ \E d \in ClockSteps : tick(d)

SpecRaffle == Init /\ [][NextRaffle]_vars

\* the counters and data.json where file reads and chat sends may fail
NextFaults ==
    \/ event_ready
    \/ \E m \in RouterFaultMessages : event_message(m)
    \/ \E m \in RouterFaultMessages : event_message_file_error(m)
    \/ \E t \in BagToSet(tasks) : resume(t)
    \/ \E t \in BagToSet(tasks) : resume_send_error(t)

SpecFaults == Init /\ [][NextFaults]_vars

\* start-up on a counter file that lacks keys or cannot be read
NextLoad ==
    \/ event_ready
    \/ event_ready_file_error
    \/ \E m \in FaultMessages : event_message(m)
    \/ \E m \in FaultMessages : event_message_file_error(m)
    \/ \E t \in BagToSet(tasks) : resume(t)

SpecLoad == InitLoad /\ [][NextLoad]_vars

\* one call of the reply chunker
NextChunker ==
    \/ chunker_word
    \/ chunker_size
    \/ chunker_reply
    \/ chunker_return

SpecChunker == InitChunker /\ [][NextChunker]_vars

\* CodemanTwitchBot: the wins counter and the song requests
NextAPI ==
    \/ \E m \in APIMessages : chat_message(m)
    \/ track_ends

SpecAPI == InitAPI /\ [][NextAPI]_vars

\* a SpotifyClient is being constructed
InitConnect ==
    /\ revision = "CodemanTwitchBot"
    /\ logging = FALSE
    /\ data_json = [deaths |-> 0, chalked |-> MaxInit, dmz_squad_pr_kills |-> MaxInit]
    /\ d0 = data_json.deaths
    /\ chunker = ChunkerIdle
    /\ spotify = [SpotifyStart(None) EXCEPT !.connection = ConnectionStart]
    /\ InitRun

\* SpotifyClient.__init__: _establish_connection
NextConnect ==
    \/ establish_enter
    \/ establish_retry
    \/ establish_return

SpecConnect == InitConnect /\ [][NextConnect]_vars

\* CodemanTwitchBot.run from the creation of the TaskGroup on
NextRoutines ==
    \/ twitter_routine
    \/ discord_routine
    \/ update_spotify_stream_player
    \/ interrupt

SpecRoutines == InitAPI /\ [][NextRoutines]_vars

\* DiscordBot handling one message after the other
SpecDiscord ==
    InitAPI /\ [][\E message \in [author : DiscordAuthors, content : DiscordContents],
                    found \in BOOLEAN : DiscordBot_on_message(message, found)]_vars

\* CodemanTwitchBot where calls to outside services may raise
NextServices ==
    \/ \E m \in APIMessages : chat_message(m)
    \/ \E m \in APIMessages : chat_message_service_error(m)
    \/ track_ends

SpecServices == InitAPI /\ [][NextServices]_vars

(***************************************************************************)
(* Properties                                                              *)
(***************************************************************************)
\* the step handles a chat message that is not the bot's own
Inbound == lastMsg' # NoMsg /\ ~lastMsg'.echo

\* C1: a message with the echo flag set is neither rewritten nor logged,
\* dispatches no handler, sends nothing and changes no bot state
C1_EchoIsIgnored ==
    [][lastMsg'.echo => /\ dispatched' = <<>>
                        /\ replies' = <<>>
                        /\ logged' = <<>>
                        /\ UNCHANGED <<botVars, data_json, tasks>>]_vars

\* an echo of "!died" has been ignored after a viewer's "!died" was counted
C1_Witness ==
    /\ lastMsg.echo
    /\ lastMsg.content = "!died"
    /\ dispatched = <<>>
    /\ diedRuns = 1
    /\ session_deaths = 1

\* the contents whose first token, lower-cased, is a configured greeting word
GreetingContents ==
    {c \in RouterContents : lower(split(c)[1]) \in GreetingWords("TwitchBot")}

\* C2: a message that is not an echo and whose first token is a greeting
\* word, in any casing, dispatches the hello handler exactly once
C2_GreetingDispatchesHello ==
    [][(Inbound /\ lastMsg'.content \in GreetingContents)
          => dispatched' = <<"hello">>]_vars

\* C3: "!DEAD", "!dead", "!DIED" and "!died" all invoke the died handler, and
\* each adds exactly 1 to session_deaths and to lifetime_deaths
C3_DiedInAnyCasing ==
    [][(Inbound /\ lastMsg'.content \in {"!DEAD", "!dead", "!DIED", "!died"})
          => /\ dispatched' = <<"died">>
             /\ session_deaths' = session_deaths + 1
             /\ lifetime_deaths' = lifetime_deaths + 1]_vars

\* every name and alias a command is registered under
RegisteredNames(rev) == {c[1] : c \in Commands(rev)} \cup {a[1] : a \in Aliases}

\* the contents that are the prefix and a token which, in no casing, is a
\* registered name or alias
UnregisteredContents ==
    {c \in RouterContents :
        /\ CommandName(c) # None
        /\ \A rev \in Revisions : lower(Val(CommandName(c))) \notin RegisteredNames(rev)}

\* the step sends nothing, dispatches nothing and changes no bot state
Dropped ==
    /\ replies' = <<>>
    /\ dispatched' = <<>>
    /\ UNCHANGED <<botVars, data_json, tasks>>

\* C4 as stated: an unregistered prefix token from any author, in any state,
\* gets no reply and changes no state
C4_UnknownCommandFromAnyAuthor ==
    [][(Inbound /\ lastMsg'.content \in UnregisteredContents) => Dropped]_vars

\* C4, amended: an unregistered prefix token gets no reply and changes no
\* state, unless the author's name contains "pocus_jet" and pocus_troll is
\* still unset
C4_UnknownCommandIsDropped ==
    [][(/\ Inbound
        /\ lastMsg'.content \in UnregisteredContents
        /\ (pocus_troll \/ lastMsg'.author \notin PocusAuthors)) => Dropped]_vars

\* xPocus_Jet's unknown command has been dropped, the troll having been played
C4_Witness ==
    /\ lastMsg.content = "!notacommand"
    /\ lastMsg.author = "xPocus_Jet"
    /\ ~lastMsg.echo
    /\ pocus_troll
    /\ replies = <<>>
    /\ dispatched = <<>>

\* C5: a message starts at most one handler execution; a single "!sr" runs
\* spotify_request once
C5_AtMostOneExecution == Len(executions) <= 1

\* the step handles a viewer's "!raffle"
RaffleArrives == Inbound /\ lastMsg'.content = "!raffle"

\* C6: with no raffle handler suspended and the timer set, a raffle invocation
\* e = floor((now - raffle_time) / 60 s) minutes after it is, for e < 15,
\* answered with the remaining time 15 - e (a value in 1..15) and sends no
\* "!raffle"; for e >= 15 the announcement goes out, then "!raffle", then the
\* timer is set to the new time
C6_RaffleGate ==
    [][/\ (RaffleArrives /\ recent_raffle /\ tasks = EmptyBag)
            => LET e == (now - Val(raffle_time)) \div 60
               IN  IF e < 15
                   THEN /\ replies' = <<Reply("raffle is currently in cool down", 15 - e, 0)>>
                        /\ 15 - e \in 1..15
                        /\ tasks' = EmptyBag
                        /\ UNCHANGED lastTrigger
                   ELSE /\ replies' = <<Reply("Okay! Let's do a raffle!", 0, 0)>>
                        /\ tasks' = SetToBag({Task("raffle:announce", 0)})
       /\ (lastMsg' = NoMsg /\ tasks = SetToBag({Task("raffle:announce", 0)}) /\ tasks' # tasks)
            => /\ replies' = <<Reply("!raffle", 0, 0)>>
               /\ tasks' = SetToBag({Task("raffle:command", 0)})
       /\ (lastMsg' = NoMsg /\ tasks = SetToBag({Task("raffle:command", 0)}) /\ tasks' # tasks)
            => /\ raffle_time' = Some(now)
               /\ recent_raffle'
      ]_vars

\* ten minutes after the timer was set, a raffle was refused with 5 remaining
C6_Witness ==
    /\ lastMsg.content = "!raffle"
    /\ recent_raffle
    /\ now - Val(raffle_time) = 600
    /\ replies = <<Reply("raffle is currently in cool down", 5, 0)>>
    /\ tasks = EmptyBag

\* the step sends the cool-down reply
Rejected ==
    /\ RaffleArrives
    /\ Len(replies') = 1
    /\ replies'[1].kind = "raffle is currently in cool down"

\* C7: a rejected raffle invocation leaves raffle_time and recent_raffle
\* unchanged, and an invocation 15 whole minutes after raffle_time is accepted
\* however recent the last rejected one is
C7_RejectionKeepsTimer ==
    [][/\ Rejected => UNCHANGED <<raffle_time, recent_raffle>>
       /\ (RaffleArrives /\ recent_raffle /\ now - Val(raffle_time) >= 15 * 60)
            => replies' = <<Reply("Okay! Let's do a raffle!", 0, 0)>>
      ]_vars

\* a raffle was accepted 310 s after a rejected one, 910 s after the timer was set
C7_Witness ==
    /\ lastMsg.content = "!raffle"
    /\ replies = <<Reply("Okay! Let's do a raffle!", 0, 0)>>
    /\ recent_raffle
    /\ lastRejected # None
    /\ now - Val(lastRejected) = 310
    /\ now - Val(raffle_time) = 910

\* C8: any two emissions of "!raffle" are at least raffle_cooldown_time
\* minutes apart, in every interleaving of the raffle handlers
C8_TriggersCooldownApart ==
    [][(lastMsg' = NoMsg /\ tasks' # tasks /\ replies' = <<Reply("!raffle", 0, 0)>>
        /\ lastTrigger # None)
          => now - Val(lastTrigger) >= raffle_cooldown_time * SecondsPerMinute]_vars

\* C9: after n runs of the died handler, in any interleaving with chalked and
\* dmzpr and across a restart that reloads the file, the file's deaths is d0 + n
C9_DeathsDurable == data_json.deaths = d0 + diedRuns

\* one death counted before a restart and one after it, from a file that held 1
C9_Witness ==
    /\ d0 = 1
    /\ restarts = 1
    /\ diedRuns = 2
    /\ session_deaths = 1
    /\ data_json.deaths = 3
    /\ data_json.chalked > MaxInit

PairedDeaths ==
    session_deaths' = session_deaths + 1
        => /\ lifetime_deaths' = lifetime_deaths + 1
           /\ data_json'.deaths = lifetime_deaths'

PairedChalked ==
    session_chalked' = session_chalked + 1
        => /\ lifetime_chalked' = lifetime_chalked + 1
           /\ data_json'.chalked = lifetime_chalked'

PairedWins ==
    session_wins' = session_wins + 1 => total_stats' = total_stats + 1

\* C10: a handler that increments a session counter (died, chalked, win) adds
\* the same amount to the lifetime counter and writes it to the JSON file
C10_SessionPairedWithLifetime ==
    [][PairedDeaths /\ PairedChalked /\ PairedWins]_vars

\* the part of C10 that is about died and chalked
DiedAndChalkedPaired == [][PairedDeaths /\ PairedChalked]_vars

\* C11: whenever no handler is executing, lifetime_deaths, lifetime_chalked
\* and dmz_squad_pr equal the values under deaths, chalked and
\* dmz_squad_pr_kills in the file, also after a file read or a send has failed
C11_LifetimeMirrorsFile ==
    (ready /\ tasks = EmptyBag)
        => /\ lifetime_deaths = data_json.deaths
           /\ lifetime_chalked = data_json.chalked
           /\ revision = "TwitchBot" => dmz_squad_pr = data_json.dmz_squad_pr_kills

\* the mirror as long as no handler has raised
MirrorWithoutFailures ==
    (ready /\ tasks = EmptyBag /\ errors = 0)
        => /\ lifetime_deaths = data_json.deaths
           /\ lifetime_chalked = data_json.chalked
           /\ revision = "TwitchBot" => dmz_squad_pr = data_json.dmz_squad_pr_kills

\* C12: when the load of the counter file fails at start-up, no command
\* handler is dispatched afterwards and no handler writes the file
C12_FailedLoadIsFatal ==
    [][load_error # None => (dispatched' = <<>> /\ data_json' = data_json)]_vars

\* the chunk bodies of the replies sent, in emission order
SentBodies == [k \in DOMAIN chunker.sent |-> chunker.sent[k].body]

RECURSIVE Concat(_)
Concat(chunks) == IF chunks = <<>> THEN <<>> ELSE Head(chunks) \o Concat(Tail(chunks))

\* C13: when the chunker has returned, the words of the chunks it sent, in
\* emission order, are exactly the words of the response: none dropped,
\* duplicated or reordered, the last partial chunk included
C13_ChunksRoundTrip ==
    chunker.pc = "done" => Concat(SentBodies) = chunker.words

\* C14: a response of 1200 characters with no word above 450 is sent as at
\* least 3 replies, each chunk non-empty and at most 460 characters long
C14_LongReplyInThreeChunks ==
    (/\ chunker.pc = "done"
     /\ ResponseLen(chunker.words) = 1200
     /\ \A i \in DOMAIN chunker.words : chunker.words[i].len <= 450)
        => /\ Len(chunker.sent) >= 3
           /\ \A k \in DOMAIN SentBodies :
                SentBodies[k] # <<>> /\ TextLen(SentBodies[k]) <= 460

\* C15: a word longer than 450 characters is sent whole in exactly one
\* chunk, and no empty chunk is sent
C15_LongWordSentWhole ==
    chunker.pc = "done"
        => /\ \A i \in DOMAIN chunker.words :
                chunker.words[i].len > 450
                    => Cardinality({k \in DOMAIN SentBodies :
                           \E j \in DOMAIN SentBodies[k] :
                               SentBodies[k][j] = chunker.words[i]}) = 1
           /\ \A k \in DOMAIN SentBodies : SentBodies[k] # <<>>

\* C16: the k-th reply carries the counter k, the chunks go out in the order
\* of the response, and N of (k/N) is the number of replies sent
C16_CountersInOrder ==
    /\ \A k \in DOMAIN chunker.sent : chunker.sent[k].counter = k
    /\ \A k, l \in DOMAIN SentBodies :
          k < l => \A a \in DOMAIN SentBodies[k], b \in DOMAIN SentBodies[l] :
                      SentBodies[k][a].id < SentBodies[l][b].id
    /\ chunker.pc = "done"
          => \A k \in DOMAIN chunker.sent : chunker.sent[k].size = Len(chunker.sent)

\* two chunks of a four-word response went out as (1/2) and (2/2)
C16_Witness ==
    /\ chunker.pc = "done"
    /\ Len(chunker.words) = 4
    /\ Len(chunker.sent) = 2
    /\ chunker.sent[2].counter = 2
    /\ chunker.sent[2].size = 2
    /\ SentBodies[1] # <<>>
    /\ SentBodies[2] # <<>>

\* the step on which a handler raises
HandlerRaises == errors' = errors + 1

\* the handler that raises had not sent a reply before: it was not suspended
\* at the second send of raffle
RaisedBeforeAnyReply ==
    lastMsg' = NoMsg
        => \A t \in BagToSet(tasks) :
              tasks' = tasks (-) SetToBag({t}) => t.pc # "raffle:command"

\* after a handler has raised, a command message is dispatched to its handler
DispatchedAfterRaise ==
    (Inbound /\ errors > 0 /\ Routed(revision, lastMsg'.content).command # None)
        => dispatched' = <<Val(Routed(revision, lastMsg'.content).command)>>

\* C17 as stated: no reply is sent for an invocation whose handler raises,
\* the router keeps running and later command messages are dispatched
C17_RaisingHandlerSendsNothing ==
    [][/\ HandlerRaises => (replies' = <<>> /\ RaisedBeforeAnyReply /\ ready')
       /\ DispatchedAfterRaise]_vars

\* C17, amended: the step on which a handler raises sends no reply, the
\* router keeps running and later command messages are dispatched; what the
\* handler sent before the call that raised stays sent
C17_RaiseDoesNotStopRouter ==
    [][/\ HandlerRaises => (replies' = <<>> /\ ready')
       /\ DispatchedAfterRaise]_vars

\* "!died" was counted and answered after two handlers had raised
C17_Witness ==
    /\ errors = 2
    /\ lastMsg.content = "!died"
    /\ dispatched = <<"died">>
    /\ replies # <<>>
    /\ data_json.deaths = lifetime_deaths

\* the number a dmzpr message submits
Submitted == Val(Routed(revision, lastMsg'.content).dmz_pr)

\* the step invokes dmzpr with a number
DmzPrInvoked ==
    /\ Inbound
    /\ dispatched' = <<"update_dmz_pr">>
    /\ Routed(revision, lastMsg'.content).dmz_pr # None

\* C19: dmzpr with a value not above dmz_squad_pr replies, leaves the file
\* and dmz_squad_pr as they are; a greater value is written under
\* dmz_squad_pr_kills and, after the send, assigned to dmz_squad_pr; nothing
\* else writes that key
C19_DmzPrFrame ==
    [][/\ DmzPrInvoked
            => IF Submitted <= dmz_squad_pr
               THEN /\ Len(replies') = 1
                    /\ data_json' = data_json
                    /\ dmz_squad_pr' = dmz_squad_pr
                    /\ tasks' = tasks
               ELSE /\ Len(replies') = 1
                    /\ data_json' = SetKey(data_json, "dmz_squad_pr_kills", Submitted)
                    /\ tasks' = tasks (+) SetToBag({Task("dmzpr:send", Submitted)})
       /\ \A t \in BagToSet(tasks) :
            (/\ t.pc = "dmzpr:send"
             /\ lastMsg' = NoMsg
             /\ restarts' = restarts
             /\ tasks' = tasks (-) SetToBag({t})) => dmz_squad_pr' = t.val
       /\ data_json'.dmz_squad_pr_kills # data_json.dmz_squad_pr_kills
            => DmzPrInvoked /\ Submitted > dmz_squad_pr
      ]_vars

\* after the record went from 1 to 2, a second "!dmzpr 2" was turned down
C19_Witness ==
    /\ lastMsg.content = "!dmzpr 2"
    /\ dmz_squad_pr = 2
    /\ data_json.dmz_squad_pr_kills = 2
    /\ Len(replies) = 1
    /\ replies[1].kind = "That does not beat their current PR"
    /\ tasks = EmptyBag

\* the replies that tell the user a call has failed
Apologies == {"I am sorry, I could not create the clip.", "Failed to add request."}

\* C18: when a call to an outside service fails in a handler (weather, the
\* LLM handlers, spotify_request, clip), no exception leaves the handler and
\* the handler sends the user an apology or error reply
C18_ServiceFailureCaught ==
    \A i \in DOMAIN outcomes :
        outcomes[i].failed
            => /\ outcomes[i].raised = None
               /\ outcomes[i].reply # None
               /\ Val(outcomes[i].reply).kind \in Apologies

\* the part of C18 that is about clip
ClipFailureCaught ==
    \A i \in DOMAIN outcomes :
        (outcomes[i].handler = "clip" /\ outcomes[i].failed)
            => /\ outcomes[i].raised = None
               /\ outcomes[i].reply # None
               /\ Val(outcomes[i].reply).kind \in Apologies

\* a clip could not be created
ClipFailed ==
    \E i \in DOMAIN outcomes : outcomes[i].handler = "clip" /\ outcomes[i].failed

\* the step runs spotify_request on the message it handles
Requested == Inbound /\ HandledTable[lastMsg'.content].request_urls # <<>>

\* C20: request_track always returns a SpotifyReturnCode; it returns SUCCESS
\* exactly when the player took the track; an argument without /track/ gets
\* REQUEST_IS_NOT_A_TRACK and the queue is left alone; a track that is queued
\* gets REQUEST_ALREADY_IN_QUEUE; spotify_request replies 'Request added!'
\* whenever the track was taken
C20_RequestTrackReturnsCode ==
    [][Requested
        => LET requested == HandledTable[lastMsg'.content]
               queued    == {spotify.queue[k] : k \in DOMAIN spotify.queue}
           IN  /\ spotify'.raised = None
               /\ spotify'.status # None
               /\ Val(spotify'.status) \in DOMAIN SpotifyReturnCode
               /\ (spotify'.status = Some("SUCCESS")) <=> spotify'.accepted
               /\ ~requested.valid_track
                    => /\ spotify'.status = Some("REQUEST_IS_NOT_A_TRACK")
                       /\ spotify'.queue = spotify.queue
                       /\ spotify'.local_queue = spotify.local_queue
               /\ (requested.valid_track /\ requested.track \in queued)
                    => spotify'.status = Some("REQUEST_ALREADY_IN_QUEUE")
               /\ spotify'.accepted
                    => \E i \in DOMAIN replies' : replies'[i].kind = "Request added!"
      ]_vars

\* the parts of C20 that are about the rejections: no /track/, already queued
RejectionsReturnCode ==
    [][Requested
        => LET requested == HandledTable[lastMsg'.content]
               queued    == {spotify.queue[k] : k \in DOMAIN spotify.queue}
           IN  /\ ~requested.valid_track
                    => /\ spotify'.status = Some("REQUEST_IS_NOT_A_TRACK")
                       /\ spotify'.queue = spotify.queue
                       /\ spotify'.local_queue = spotify.local_queue
               /\ (requested.valid_track /\ requested.track \in queued
                   /\ spotify'.raised = None)
                    => spotify'.status = Some("REQUEST_ALREADY_IN_QUEUE")
               /\ spotify'.status = Some("SUCCESS") => spotify'.accepted
      ]_vars

\* playback was started with the requested track and request_track returned None
StartedPlayback ==
    /\ spotify.accepted
    /\ spotify.status = None
    /\ spotify.raised = None
    /\ \E i \in DOMAIN outcomes : outcomes[i].raised = Some("AttributeError")

\* C21: within one run no operation truncates or overwrites the session log:
\* what the file held before a step is still the beginning of what it holds
\* after it
C21_SessionLogAppendOnly ==
    [][restarts' = restarts
        => /\ Len(session_log') >= Len(session_log)
           /\ SubSeq(session_log', 1, Len(session_log)) = session_log
      ]_vars

\* the text after the mention, without the whitespace around it
Remainder(content) == strip_whitespace(From(content, Len("@" \o nick) + 1))

\* the step handles a viewer's message that starts with a mention of the bot
Mentioned == Inbound /\ lastMsg'.content \in MentionContents

\* C22: a non-echo message that starts with a mention of the bot dispatches
\* the AI-response handler, and the text forwarded to the LLM is the rest of
\* the message after the mention, trimmed of whitespace and nothing else
C22_MentionForwardsRemainder ==
    [][Mentioned
        => /\ dispatched' = <<"ai_response">>
           /\ forwarded' = <<Remainder(lastMsg'.content)>>
      ]_vars

\* the part of C22 that is about the dispatch
MentionDispatchesAI ==
    [][Mentioned => dispatched' = <<"ai_response">>]_vars

\* "be cool" after a mention reached the LLM as "be"
MentionCutShort ==
    /\ lastMsg.content = "@therealcodemanbot be cool"
    /\ forwarded = <<"be">>

\* C23: an LLM response of more than 450 characters that chat_gpt obtained
\* goes to the chunker and reaches the user in one or more replies; a response
\* of at most 450 characters is sent as exactly one reply
C23_LongResponseIsChunked ==
    \A i \in DOMAIN outcomes :
        (outcomes[i].handler = "chat_gpt" /\ ~outcomes[i].failed)
            => IF outcomes[i].long
               THEN /\ outcomes[i].raised = None
                    /\ chunker.pc # "idle"
                    /\ replies # <<>>
               ELSE /\ outcomes[i].raised = None
                    /\ replies = <<Val(outcomes[i].reply)>>

\* the part of C23 that is about a response of at most 450 characters
ShortResponseOneReply ==
    \A i \in DOMAIN outcomes :
        (outcomes[i].handler = "chat_gpt" /\ ~outcomes[i].failed /\ ~outcomes[i].long)
            => /\ outcomes[i].raised = None
               /\ replies = <<Val(outcomes[i].reply)>>

\* chat_gpt got a short response and replied with it
ShortResponseSent ==
    \E i \in DOMAIN outcomes :
        /\ outcomes[i].handler = "chat_gpt"
        /\ ~outcomes[i].long
        /\ outcomes[i].reply # None

\* the step handles a viewer's message that is empty or only whitespace
Blank == Inbound /\ lastMsg'.content \in BlankContents

\* C24: a non-echo message that is empty or only whitespace matches no
\* command and is dropped: event_message completes without raising and
\* without a reply
C24_BlankMessageIsDropped ==
    [][Blank
        => /\ dispatched' = <<>>
           /\ replies' = <<>>
           /\ errors' = errors
      ]_vars

\* the parts of C24 that are about the dispatch and the reply
BlankMessageIsSilent ==
    [][Blank => dispatched' = <<>> /\ replies' = <<>>]_vars

\* C24 of on_message of CodemanTwitchBot
BlankTextIsDropped ==
    lastMsg.content \in BlankContents
        => /\ replies = <<>>
           /\ \A i \in DOMAIN outcomes : outcomes[i].raised = None

\* C25: _establish_connection calls _find_device_id again at most
\* max_attempts times; it returns SUCCESS with _device_id set when the device
\* was found and FAILED_TO_ESTABLISH_CONNECTION when it was not
C25_ConnectionAttemptsBounded ==
    /\ spotify.connection.retries <= max_attempts
    /\ spotify.connection.pc = "done"
        => IF spotify.connection.device_id # -1
           THEN /\ spotify.connection.status = Some("SUCCESS")
                /\ spotify.connection.self_device_id = spotify.connection.device_id
           ELSE spotify.connection.status = Some("FAILED_TO_ESTABLISH_CONNECTION")

\* the part of C25 that is about the return values
ConnectionReturns ==
    spotify.connection.pc = "done"
        => IF spotify.connection.device_id # -1
           THEN /\ spotify.connection.status = Some("SUCCESS")
                /\ spotify.connection.self_device_id = spotify.connection.device_id
           ELSE spotify.connection.status = Some("FAILED_TO_ESTABLISH_CONNECTION")

\* FAILED_TO_ESTABLISH_CONNECTION is never returned
NeverGivesUp ==
    spotify.connection.status # Some("FAILED_TO_ESTABLISH_CONNECTION")

\* the tracks the player holds: the one that plays and the queued ones
InPlayer ==
    {spotify.queue[k] : k \in DOMAIN spotify.queue}
    \cup (IF spotify.playing = None THEN {} ELSE {Val(spotify.playing)})

\* C26: a request is refused with REQUEST_ALREADY_IN_QUEUE only if the track
\* plays or is in the player's queue when the request is made; a track that
\* has left the queue can be requested again
C26_RefusedOnlyWhileQueued ==
    [][(Requested /\ spotify'.status = Some("REQUEST_ALREADY_IN_QUEUE"))
        => HandledTable[lastMsg'.content].track \in InPlayer
      ]_vars

\* a track is refused that neither plays nor is queued
StaleRefusal ==
    /\ spotify.status = Some("REQUEST_ALREADY_IN_QUEUE")
    /\ lastMsg.content = "!sr /track/a"
    /\ "/track/a" \notin InPlayer

\* C27: while a process runs, the value under dmz_squad_pr_kills in the file
\* and dmz_squad_pr never decrease, also when dmzpr invocations interleave at
\* the awaited send; with no handler suspended the two are equal
C27_SquadPrNeverDecreases ==
    [][(ready /\ restarts' = restarts /\ revision = "TwitchBot")
        => /\ data_json'.dmz_squad_pr_kills >= data_json.dmz_squad_pr_kills
           /\ dmz_squad_pr' >= dmz_squad_pr
           /\ tasks' = EmptyBag => dmz_squad_pr' = data_json'.dmz_squad_pr_kills
      ]_vars

\* the file after the step holds what it held before under every key but k
OnlyKeyChanged(k) ==
    /\ DOMAIN data_json' = DOMAIN data_json \cup {k}
    /\ \A x \in DOMAIN data_json \ {k} : data_json'[x] = data_json[x]

\* the key of data.json a counter handler writes
OwnKey(handler) ==
    CASE handler = "died"          -> "deaths"
      [] handler = "chalked"       -> "chalked"
      [] handler = "update_dmz_pr" -> "dmz_squad_pr_kills"

\* C28: died, chalked and dmzpr each rewrite the counter file with their own
\* key updated and every other key as the file held it immediately before
\* (or leave the file alone); no other step writes the file
C28_HandlerWritesOwnKey ==
    [][IF Inbound /\ dispatched' \in {<<"died">>, <<"chalked">>, <<"update_dmz_pr">>}
       THEN data_json' = data_json \/ OnlyKeyChanged(OwnKey(dispatched'[1]))
       ELSE data_json' = data_json
      ]_vars

\* died has rewritten a file in which chalked differs from deaths, and chalked
\* and dmz_squad_pr_kills are as before
C28_Witness ==
    /\ dispatched = <<"died">>
    /\ data_json.deaths = lifetime_deaths
    /\ data_json.deaths = d0 + 1
    /\ data_json.chalked = MaxInit
    /\ data_json.dmz_squad_pr_kills = MaxInit

\* C29: when a routine has failed on a send, the other routines keep running
\* and the chat stays connected until the operator stops the bot
C29_RoutinesIndependent ==
    (~routines.interrupted /\ \E r \in Routines : routines.status[r] = "failed")
        => /\ routines.chat = "up"
           /\ \A r \in Routines : routines.status[r] \in {"running", "failed"}

\* while no routine has failed and nobody has interrupted, all routines run
\* and the chat is connected
RoutinesRunUntilFailure ==
    (~routines.interrupted /\ \A r \in Routines : routines.status[r] # "failed")
        => /\ routines.chat = "up"
           /\ \A r \in Routines : routines.status[r] = "running"

\* a failed send of twitter_routine has ended the Discord routine and the chat
TwitterFailureStopsAll ==
    /\ routines.status["twitter_routine"] = "failed"
    /\ routines.status["discord_routine"] = "cancelled"
    /\ routines.chat = "stopped"

\* the last Discord message handled
Handled_message == discord.message[1]

\* C30: post_twitch_message is invoked only for a message that starts with
\* `!live` and is written by the privileged id; a `!live` message of any other
\* author gets the permission-denied reply and posts nothing to the
\* notifications channel, and a message of the bot itself triggers nothing
C30_LiveAuthorization ==
    [][LET message == discord'.message[1]
           live == startswith(message.content, "!live")
       IN  /\ discord'.invoked => live /\ message.author = privileged_id
           /\ discord'.notifications # discord.notifications => discord'.invoked
           /\ (live /\ message.author \notin {privileged_id, user})
                 => /\ discord'.channel = <<"no permission">>
                    /\ discord'.notifications = discord.notifications
           /\ message.author = user
                 => /\ ~discord'.invoked
                    /\ discord'.channel = <<>>
                    /\ discord'.direct = <<>>
                    /\ discord'.notifications = discord.notifications]_discord

\* the privileged author wrote `!live now` and the notification stands in the
\* notifications channel
C30_Witness ==
    /\ discord.message # None
    /\ Handled_message = [author |-> privileged_id, content |-> "!live now"]
    /\ discord.invoked
    /\ discord.notifications # <<>>
    /\ discord.notifications[Len(discord.notifications)] =
           [mention |-> privileged_id, description |-> "now"]

\* another author's `!live` has been refused
LiveDenied ==
    /\ discord.message # None
    /\ Handled_message.author \notin {privileged_id, user}
    /\ startswith(Handled_message.content, "!live")
    /\ discord.channel = <<"no permission">>

====
